---- MODULE Spec2Model ----
(***************************************************************************)
(* Model of empath-backend/app.py: the /api/chat request handler, the      *)
(* crisis detector, the response-text extractor and the signature-probing  *)
(* adapter around the hosted-inference client.                             *)
(*                                                                         *)
(* Text is a sequence of symbols: "sp" (a whitespace character), "w" (a    *)
(* word character) and "CR", one whole crisis phrase ("kill myself",       *)
(* "suicide", ...).  A phrase begins and ends with a word character, so    *)
(* the \b anchors of CRISIS_PATTERNS are decided by the neighbouring       *)
(* symbols.                                                                *)
(*                                                                         *)
(* An error message is the set of the marker substrings it contains; the   *)
(* f-string wrappers of the code add the markers of their literal text.    *)
(***************************************************************************)
EXTENDS Integers, Sequences, FiniteSets, TLC

\* ------------------------------------------------------------------ bounds
MaxMsgLen == 2

\* -------------------------------------------------------------------- text
Alphabet == {"sp", "w", "CR"}

TextsUpTo(n) == UNION {[1..k -> Alphabet] : k \in 0..n}

RECURSIVE LStrip(_)
LStrip(t) == IF t # <<>> /\ Head(t) = "sp" THEN LStrip(Tail(t)) ELSE t

RECURSIVE RStrip(_)
RStrip(t) ==
    IF t # <<>> /\ t[Len(t)] = "sp" THEN RStrip(SubSeq(t, 1, Len(t) - 1)) ELSE t

\* str.strip()
Strip(t) == RStrip(LStrip(t))

\* one pattern of CRISIS_PATTERNS matches at position i: the phrase stands
\* between two word boundaries (start/end of text or a non-word character)
PatternMatchesAt(t, i) ==
    /\ t[i] = "CR"
    /\ (i = 1 \/ t[i - 1] = "sp")
    /\ (i = Len(t) \/ t[i + 1] = "sp")

detect_crisis(t) ==
    IF t = <<>> THEN FALSE
    ELSE \E i \in 1..Len(t) : PatternMatchesAt(t, i)

\* ---------------------------------------------------------------- helpline
\* country codes as they arrive in the JSON body: "None" is an absent or
\* null field, "NUM91" a JSON number (truthy, not a string)
CountryCodes == {"None", "in", "NUM91"}

IsString(cc) == cc \in {"in", ""}

\* str.upper()
Upper(cc) == IF cc = "in" THEN "IN" ELSE cc

DEFAULT_HELPLINE ==
    [c \in {"IN", "US", "UK"} |->
        CASE c = "IN" -> "+91-8888817666"
          [] c = "US" -> "988 / 1-800-273-8255"
          [] c = "UK" -> "Samaritans / 116 123"]

\* (country_code or "")
OrEmpty(cc) == IF cc = "None" THEN "" ELSE cc

\* (country_code or "").upper() raises AttributeError on a truthy non-string
HelplineRaises(cc) == ~ (cc = "None" \/ IsString(cc))

\* DEFAULT_HELPLINE.get((country_code or "").upper(), DEFAULT_HELPLINE.get("US"))
Helpline(cc) ==
    LET key == Upper(OrEmpty(cc))
    IN  IF key \in DOMAIN DEFAULT_HELPLINE THEN DEFAULT_HELPLINE[key]
        ELSE DEFAULT_HELPLINE["US"]

\* ---------------------------------------------------------- error messages
\* str.lower() on the marker substrings
LowerMarker(m) ==
    CASE m = "Conversational" -> "conversational"
      [] m = "Permission" -> "permission"
      [] m = "Not Found" -> "not found"
      [] m = "Unauthorized" -> "unauthorized"
      [] OTHER -> m

Lower(msg) == {LowerMarker(m) : m \in msg}

\* exceptions raised by the external client: the exception class and the
\* markers of str(e)
ProviderErrors ==
    { [type |-> "TypeError", msg |-> {"unexpected keyword argument"}],
      [type |-> "Exception", msg |-> {"404", "Not Found"}],
      [type |-> "Exception", msg |-> {"Conversational"}],
      [type |-> "Exception", msg |-> {"Permission", "supported task"}] }

\* the exceptions a chat method raises: a TypeError for arguments it does
\* not take, or an error of the provider
ChatErrors == {e \in ProviderErrors : e.type = "TypeError" \/ "404" \in e.msg}

\* --------------------------------------------------------- provider values
\* a field of a response dict: absent, present with a non-string value, or
\* present with a string
Absent == [t |-> "absent", s |-> <<>>]
NonStr == [t |-> "nonstr", s |-> <<>>]
Str(x) == [t |-> "str", s |-> x]

\* a value returned by a client method.  isstr: it is a Python str, raw its
\* characters, parses: json.loads(raw) succeeds.  The remaining fields
\* describe the value itself (or, for a str that parses, the parsed value):
\* choices is the shape of resp["choices"], msg_content is
\* choices[0]["message"]["content"], first_text is choices[0]["text"],
\* repr is str(value) and markers the marker substrings of str(value).
Value(isstr, parses, raw, isdict, choices, mc, ft, gt, tx, ct, repr) ==
    [isstr |-> isstr, parses |-> parses, raw |-> raw, isdict |-> isdict,
     choices |-> choices, msg_content |-> mc, first_text |-> ft,
     generated_text |-> gt, text |-> tx, content |-> ct, repr |-> repr,
     markers |-> {}]

\* for k in ("generated_text", "text", "content"): the first string value
FlatFields(v) ==
    IF v.generated_text.t = "str" THEN v.generated_text
    ELSE IF v.text.t = "str" THEN v.text
    ELSE IF v.content.t = "str" THEN v.content
    ELSE Absent

ExtractFlatFirst(r) ==
    IF r.isstr /\ ~ r.parses THEN Strip(r.raw)
    ELSE IF r.isdict /\ FlatFields(r).t = "str"
        THEN Strip(FlatFields(r).s)
    ELSE IF r.isdict /\ r.choices = "first_dict"
            /\ r.msg_content.t = "str"
        THEN Strip(r.msg_content.s)
    ELSE IF r.isdict /\ r.choices = "first_dict"
            /\ r.first_text.t = "str"
        THEN Strip(r.first_text.s)
    ELSE Strip(r.repr)

extract_text_from_response(r) ==
    IF r.isstr /\ ~ r.parses THEN Strip(r.raw)
    ELSE IF r.isdict /\ r.choices = "first_dict"
            /\ r.msg_content.t = "str"
        THEN Strip(r.msg_content.s)
    ELSE IF r.isdict /\ r.choices = "first_dict"
            /\ r.first_text.t = "str"
        THEN Strip(r.first_text.s)
    ELSE IF r.isdict /\ FlatFields(r).t = "str"
        THEN Strip(FlatFields(r).s)
    ELSE Strip(r.repr)

\* ------------------------------------------------------- the client surface
\* attribute names of the client, in the order dir(client) lists them
AttrNames == <<"Chat", "chat", "chat_completion", "conversational">>

ChatNames == {"chat", "conversational", "chat_completion"}

\* fallback_attr.lower()
LowerName(n) == IF n = "Chat" THEN "chat" ELSE n

ProxyMembers == <<"generate", "create", "__call__", "run", "invoke">>

PayloadMessages == {"model", "messages", "max_new_tokens", "temperature"}
PayloadInputs ==
    {"model", "inputs", "system_prompt", "max_new_tokens", "temperature"}

\* candidates of try_chat_methods, in order
candidates ==
    << [name |-> "chat", payload |-> PayloadMessages],
       [name |-> "conversational", payload |-> PayloadMessages],
       [name |-> "chat_completion", payload |-> PayloadMessages],
       [name |-> "chat", payload |-> PayloadInputs] >>

\* a callable as inspect.signature sees it: sigok is FALSE when
\* inspect.signature raises, params are the parameter names
Sig(ok, params) == [has |-> TRUE, sigok |-> ok, params |-> params]
NoMember == [has |-> FALSE, sigok |-> FALSE, params |-> {}]

\* inspect.signature of the __call__ of a function or bound method is
\* (*args, **kwargs)
WrapperCall == Sig(TRUE, {"args", "kwargs"})

NoMembers == [m \in {"generate", "create", "__call__", "run", "invoke"} |-> NoMember]

\* an attribute of the client: present (hasattr), callable, its signature,
\* and its members among ProxyMembers that exist and are callable
NoAttr ==
    [present |-> FALSE, callable |-> FALSE, sigok |-> FALSE, params |-> {},
     members |-> NoMembers]

Function(params) ==
    [present |-> TRUE, callable |-> TRUE, sigok |-> TRUE, params |-> params,
     members |-> [NoMembers EXCEPT !["__call__"] = WrapperCall]]

Builtin ==
    [present |-> TRUE, callable |-> TRUE, sigok |-> FALSE, params |-> {},
     members |-> [NoMembers EXCEPT !["__call__"] = WrapperCall]]

Proxy(members) ==
    [present |-> TRUE, callable |-> FALSE, sigok |-> FALSE, params |-> {},
     members |-> members]

NoClient == [n \in ChatNames \cup {"Chat"} |-> NoAttr]

ClientShapes ==
    { NoClient,
      [NoClient EXCEPT
         !["chat"] = Proxy(NoMembers),
         !["chat_completion"] = Function({"messages", "model", "temperature", "max_tokens"})],
      [NoClient EXCEPT
         !["chat"] = Proxy([NoMembers EXCEPT
                              !["generate"] = Sig(FALSE, {}),
                              !["create"] = Sig(TRUE, {"model", "inputs"})])],
      [NoClient EXCEPT
         !["Chat"] = Function({"args"}),
         !["conversational"] = Builtin] }

\* ------------------------------------------------- the invocation attempts
\* one attempt on an attribute of the client.  target: the attribute itself
\* ("self") or one of its members; style: how the arguments are passed;
\* kwargs: the keyword names passed; local: the attempt raises before the
\* client is entered (inspect.signature raised, or the object is not
\* callable)
Attempt(phase, cand, attr, target, style, kwargs, local) ==
    [phase |-> phase, cand |-> cand, attr |-> attr, target |-> target,
     style |-> style, kwargs |-> kwargs, local |-> local]

\* filtered = {p: payload[p] for p in params if p in payload}
BuildWholePayload(payload, params) == payload

_build_payload_for_signature(payload, params) ==
    (params \ {"self", "cls"}) \cap payload

CallablePayloadBeforePositional(phase, cand, attr, target, sig, payload) ==
    IF ~ sig.sigok
    THEN << Attempt(phase, cand, attr, target, "signature", {}, TRUE) >>
    ELSE LET kwargs == _build_payload_for_signature(payload, sig.params)
         IN  (IF kwargs # {}
              THEN << Attempt(phase, cand, attr, target, "sig_kwargs", kwargs, FALSE) >>
              ELSE << >>)
             \o << Attempt(phase, cand, attr, target, "full_payload", payload, FALSE),
                   Attempt(phase, cand, attr, target, "positional", {}, FALSE) >>

try_invoke_callable_with_signature(phase, cand, attr, target, sig, payload) ==
    IF ~ sig.sigok
    THEN << Attempt(phase, cand, attr, target, "signature", {}, TRUE) >>
    ELSE LET kwargs == _build_payload_for_signature(payload, sig.params)
         IN  (IF kwargs # {}
              THEN << Attempt(phase, cand, attr, target, "sig_kwargs", kwargs, FALSE) >>
              ELSE << >>)
             \o << Attempt(phase, cand, attr, target, "positional", {}, FALSE),
                   Attempt(phase, cand, attr, target, "full_payload", payload, FALSE) >>

RECURSIVE MemberAttempts(_, _, _, _, _, _)
MemberAttempts(phase, cand, attr, obj, payload, i) ==
    IF i > Len(ProxyMembers) THEN << >>
    ELSE (IF obj.members[ProxyMembers[i]].has
          THEN try_invoke_callable_with_signature(phase, cand, attr,
                   ProxyMembers[i], obj.members[ProxyMembers[i]], payload)
          ELSE << >>)
         \o MemberAttempts(phase, cand, attr, obj, payload, i + 1)

try_invoke_proxy_method(phase, cand, attr, obj, payload) ==
    (IF obj.callable
     THEN try_invoke_callable_with_signature(phase, cand, attr, "self",
              Sig(obj.sigok, obj.params), payload)
     ELSE << >>)
    \o MemberAttempts(phase, cand, attr, obj, payload, 1)
    \o << Attempt(phase, cand, attr, "self", "final_positional", {},
                  ~ obj.callable) >>

RECURSIVE NamedAttempts(_, _)
NamedAttempts(client, i) ==
    IF i > Len(candidates) THEN << >>
    ELSE (IF client[candidates[i].name].present
          THEN try_invoke_proxy_method("named", i, candidates[i].name,
                   client[candidates[i].name], candidates[i].payload)
          ELSE << >>)
         \o NamedAttempts(client, i + 1)

RECURSIVE ScanAttempts(_, _)
ScanAttempts(client, i) ==
    IF i > Len(AttrNames) THEN << >>
    ELSE (IF client[AttrNames[i]].present /\ LowerName(AttrNames[i]) \in ChatNames
          THEN try_invoke_proxy_method("scan", i, AttrNames[i],
                   client[AttrNames[i]], PayloadMessages)
          ELSE << >>)
         \o ScanAttempts(client, i + 1)

NamedCandidatesTwice(client) ==
    NamedAttempts(client, 1) \o NamedAttempts(client, 1) \o ScanAttempts(client, 1)

ScanBeforeNamed(client) == ScanAttempts(client, 1) \o NamedAttempts(client, 1)

\* the attempts try_chat_methods makes while every attempt fails
try_chat_methods(client) == NamedAttempts(client, 1) \o ScanAttempts(client, 1)

\* ------------------------------------------------------------------- state
VARIABLES
    FALLBACK_REPLY,                \* configuration, read once at startup
    HF_TOKEN,                      \* TRUE when a token is set
    HF_INFERENCECLIENT_AVAILABLE,
    DEFAULT_MODEL,
    pc,                            \* where the request in progress stands
    request,                       \* the request in progress
    text,                          \* locals of chat_endpoint
    country_code,
    chosen_model,
    client,                        \* the InferenceClient of this request
    attempts,                      \* attempts of try_chat_methods
    idx,                           \* the attempt in progress
    textgen_failed,                \* the text-generation attempt raised
    err_msg,                       \* str(e_textgen)
    last_err,                      \* last_err of try_chat_methods
    last_failure,                  \* message of the most recent failed attempt
    textgen_exc,                   \* class of the exception the first
                                   \* text_generation call raised, "" if none
    chat_entered,                  \* try_chat_methods was invoked
    model_called,                  \* call_model_with_inference_client was invoked
    calls,                         \* invocations made on the client
    generated,                     \* the value call_model... returned
    raised,                        \* the exception call_model... raised
    response,                      \* the HTTP response of the request
    resp,                          \* the argument of extract_text_from_response
    other,                         \* the locals of the request handled by
                                   \* the other thread of the server
    running                            \* the thread that is running

config == <<FALLBACK_REPLY, HF_TOKEN, HF_INFERENCECLIENT_AVAILABLE, DEFAULT_MODEL>>

vars == <<FALLBACK_REPLY, HF_TOKEN, HF_INFERENCECLIENT_AVAILABLE, DEFAULT_MODEL,
          pc, request, text, country_code, chosen_model, client, attempts, idx,
          textgen_failed, textgen_exc, err_msg, last_err, last_failure,
          chat_entered, model_called, calls,
          generated, raised, response, resp, other, running>>

\* ---------------------------------------------------------------- requests
ModelOverrides == {"None", "org/override"}

\* os.getenv("DEFAULT_MODEL") or os.getenv("PUBLIC_FALLBACK_MODEL") or "meta-llama/..."
\* the last operand is the literal of line 23: DEFAULT_MODEL has this value
\* when neither DEFAULT_MODEL nor PUBLIC_FALLBACK_MODEL is in the environment
BuiltinModel == "meta-llama/Llama-3.1-8B-Instruct"

DefaultModels == {"org/env-model", BuiltinModel}

Messages == {Absent, NonStr} \cup {Str(t) : t \in TextsUpTo(MaxMsgLen)}

\* is_json: the Content-Type is application/json.  body: what
\* get_json(silent=True) returns: None ("unparseable"), a falsy value
\* ("falsy": {}, [], 0, ""), a truthy value that is not an object
\* ("nondict": a non-empty list, a string, a number) or an object ("dict")
Request(is_json, body, message, cc, model) ==
    [is_json |-> is_json, body |-> body, message |-> message,
     countryCode |-> cc, model |-> model]

NoRequest == Request(FALSE, "none", Absent, "None", "None")

Requests ==
    { Request(FALSE, "unparseable", Absent, "None", "None"),
      Request(TRUE, "unparseable", Absent, "None", "None"),
      Request(TRUE, "falsy", Absent, "None", "None"),
      Request(TRUE, "nondict", Absent, "None", "None") }
    \cup { Request(TRUE, "dict", m, cc, mo) :
              m \in Messages, cc \in CountryCodes, mo \in ModelOverrides }

\* --------------------------------------------------------------- responses
NoText == [template |-> "none", helpline |-> "", generated |-> << >>]

\* "I'm really sorry you're feeling this way. ... helpline for support: {helpline}."
PreCheckReply(helpline) ==
    [template |-> "pre_check", helpline |-> helpline, generated |-> << >>]

\* "I detect content that could indicate you might be in danger. ... helpline: {helpline}."
PostCheckReply(helpline) ==
    [template |-> "post_check", helpline |-> helpline, generated |-> << >>]

\* "Hi - I'm here. I can't reach a hosted model right now. ..."
CannedReply == [template |-> "canned", helpline |-> "", generated |-> << >>]

ModelReply(t) == [template |-> "model", helpline |-> "", generated |-> t]

NoResponse ==
    [status |-> 0, json |-> FALSE, error |-> "", role |-> "", text |-> NoText,
     crisis |-> FALSE, detail |-> {}, guidance |-> << >>]

\* jsonify({"error": ...}), status
Error(status, error) ==
    [NoResponse EXCEPT !.status = status, !.json = TRUE, !.error = error]

\* jsonify({"role": "bot", "text": ..., "crisis": ...}), 200
Reply(t, crisis) ==
    [NoResponse EXCEPT !.status = 200, !.json = TRUE, !.role = "bot",
                       !.text = t, !.crisis = crisis]

HandleExceptionPlain ==
    [NoResponse EXCEPT !.status = 500]

\* @app.errorhandler(Exception)
handle_exception == Error(500, "internal_server_error")

G_NOT_FOUND ==
    "Model not found at the provider. Check that the model id is correct and that the provider hosts it."
G_UNAUTHORIZED ==
    "Token unauthorized for model - ensure HF_TOKEN has access or the model is public at that provider."
G_CONVERSATIONAL ==
    "This provider/model expects conversational/chat requests - ensure the provider client supports chat (this server attempted conversational fallback)."
G_GENERIC ==
    "Check provider, token, and model id. If using a private/gated model, request access or use a token with access."

GuidanceNoGeneric(err_str) ==
    (IF "Not Found" \in err_str \/ "404" \in err_str
     THEN << G_NOT_FOUND >> ELSE << >>)
    \o (IF "403" \in err_str \/ "Unauthorized" \in err_str
           \/ "permission" \in Lower(err_str)
        THEN << G_UNAUTHORIZED >> ELSE << >>)
    \o (IF "conversational" \in Lower(err_str)
        THEN << G_CONVERSATIONAL >> ELSE << >>)

\* the guidance list of the except branch of chat_endpoint
Guidance(err_str) ==
    LET guidance ==
            (IF "Not Found" \in err_str \/ "404" \in err_str
             THEN << G_NOT_FOUND >> ELSE << >>)
            \o (IF "403" \in err_str \/ "Unauthorized" \in err_str
                   \/ "permission" \in Lower(err_str)
                THEN << G_UNAUTHORIZED >> ELSE << >>)
            \o (IF "conversational" \in Lower(err_str)
                THEN << G_CONVERSATIONAL >> ELSE << >>)
    IN  IF guidance = << >> THEN << G_GENERIC >> ELSE guidance

\* the except branch of chat_endpoint: 502
UpstreamFailed(err_str) ==
    [Error(502, "upstream_inference_failed") EXCEPT
        !.detail = err_str, !.guidance = Guidance(err_str)]

\* ------------------------------------------------------ provider responses
T_word == << "w" >>
T_padded == << "sp", "w", "sp" >>
T_crisis == << "sp", "CR" >>
T_blank == << "sp" >>

PlainText(t) ==
    Value(TRUE, FALSE, t, FALSE, "absent", Absent, Absent, Absent, Absent, Absent, t)

Dict(choices, mc, ft, gt, tx, ct) ==
    Value(FALSE, FALSE, << >>, TRUE, choices, mc, ft, gt, tx, ct, T_word)

JsonText(choices, mc, ft, gt, tx, ct) ==
    Value(TRUE, TRUE, T_word, TRUE, choices, mc, ft, gt, tx, ct, T_word)

Object(repr) ==
    Value(FALSE, FALSE, << >>, FALSE, "absent", Absent, Absent, Absent, Absent, Absent, repr)

\* a value whose str() contains the marker substrings m
Marked(v, m) == [v EXCEPT !.markers = m]

\* the values the client methods return in the request model
ProviderResponses ==
    { PlainText(T_word), PlainText(T_crisis), PlainText(T_blank),
      Dict("first_dict", Str(T_padded), Str(T_crisis), Str(T_crisis), Absent, Absent),
      Dict("first_dict", NonStr, Str(T_word), Str(T_crisis), Absent, Absent),
      Dict("empty", Absent, Absent, NonStr, Str(T_padded), Str(T_crisis)),
      Dict("absent", Absent, Absent, Absent, Absent, NonStr),
      Marked(JsonText("absent", Absent, Absent, Str(T_blank), Str(T_word), Absent),
             {"conversational"}),
      Object(<< "CR" >>) }

\* --------------------------------------------------------------- handlers
\* chat_endpoint after the model caller returned: the crisis post-check
PostCheckPassThrough(gen, cc) == Reply(ModelReply(Strip(gen)), detect_crisis(gen))

PostCheckDefaultHelpline(gen, cc) ==
    IF detect_crisis(gen)
    THEN Reply(PostCheckReply(DEFAULT_HELPLINE["US"]), TRUE)
    ELSE Reply(ModelReply(Strip(gen)), FALSE)

post_check(gen, cc) ==
    IF detect_crisis(gen)
    THEN IF HelplineRaises(cc) THEN handle_exception
         ELSE Reply(PostCheckReply(Helpline(cc)), TRUE)
    ELSE Reply(ModelReply(Strip(gen)), FALSE)

IsConversationalAlways(msg) == TRUE

IsConversationalCaseSensitive(msg) ==
    "conversational" \in msg \/ "supported task" \in msg

\* the test of the except branch of call_model_with_inference_client
IsConversationalError(msg) ==
    \/ "conversational" \in Lower(msg)
    \/ "supported task" \in Lower(msg)

\* "Conversational fallback failed: No conversational/chat method succeeded
\*  on InferenceClient. Last error: {last} (text_generation error was: {msg})"
ChatFailedMsg(last, msg) == {"Conversational", "conversational"} \cup last \cup msg

\* "Conversational fallback failed: conversational call returned empty
\*  response: {resp} (text_generation error was: {msg})"
ChatEmptyMsg(r, msg) ==
    {"Conversational", "conversational"} \cup r.markers \cup msg

\* str(e) of an attempt that raises before the client is entered:
\* inspect.signature raised, or TypeError "object is not callable"
LocalError(a) ==
    IF a.style = "signature" THEN {"no signature found"}
    ELSE {"object is not callable"}

\* the error of attempt k, when attempt i raised e and the attempts after
\* it raised locally
ErrorOf(att, i, e, k) == IF k = i THEN e ELSE LocalError(att[k])

LastErrKeepsFirst(att, i, j, e, cur) ==
    IF cur # {} THEN cur
    ELSE IF \E k \in i..(j - 1) : att[k].style = "final_positional"
    THEN LET k == CHOOSE k \in i..(j - 1) : att[k].style = "final_positional"
         IN  ErrorOf(att, i, e, k)
    ELSE cur

\* last_err of try_chat_methods after the attempts i..j-1 failed: it is
\* assigned when a visit ends (lines 258, 272), with "Proxy invocation
\* failed. Last error: {last_exc}", last_exc being the error of the last
\* attempt of the visit, method_obj(*pos_args)
LastErrAfter(att, i, j, e, cur) ==
    IF \E k \in i..(j - 1) : att[k].style = "final_positional"
    THEN LET k == CHOOSE k \in i..(j - 1) :
                     /\ att[k].style = "final_positional"
                     /\ \A m \in (k + 1)..(j - 1) : att[m].style # "final_positional"
         IN  ErrorOf(att, i, e, k)
    ELSE cur

\* the first attempt at or after i that enters the client
RECURSIVE NextCall(_, _)
NextCall(att, i) ==
    IF i > Len(att) THEN i
    ELSE IF att[i].local THEN NextCall(att, i + 1)
    ELSE i

RetriesOnAnyError(e) == TRUE

\* except TypeError: (line 142)
RetriesWithPrompt(e) == e.type = "TypeError"

TextGenCall(style) ==
    Attempt("text_generation", 0, "text_generation", "self", style,
            {"model", style, "max_new_tokens", "temperature"}, FALSE)

Respond(r) == pc' = "done" /\ response' = r

NotRaised == [is |-> FALSE, msg |-> {}]
Raised(msg) == [is |-> TRUE, msg |-> msg]

\* call_model_with_inference_client raises RuntimeError(msg); the except
\* branch of chat_endpoint answers (lines 397-415)
Raise(msg) ==
    /\ raised' = Raised(msg)
    /\ Respond(UpstreamFailed(msg))

\* call_model_with_inference_client returns text; chat_endpoint finishes
Succeed(t) ==
    /\ generated' = t
    /\ last_err' = {}
    /\ last_failure' = {}
    /\ UNCHANGED raised
    /\ Respond(post_check(t, country_code))

\* the except branch of call_model_with_inference_client (lines 307-322),
\* up to the first invocation of a chat method
AfterTextgenError(msg) ==
    /\ textgen_failed' = TRUE
    /\ err_msg' = msg
    /\ generated' = << >>
    /\ IF IsConversationalError(msg)
       THEN LET att == try_chat_methods(client)
                first == NextCall(att, 1)
                last == LastErrAfter(att, 1, first, {}, {})
            IN  /\ chat_entered' = TRUE
                /\ attempts' = att
                /\ idx' = first
                /\ last_err' = last
                /\ last_failure' =
                      (IF first > 1 THEN LocalError(att[first - 1]) ELSE msg)
                /\ IF first > Len(att)
                   THEN Raise(ChatFailedMsg(last, msg))
                   ELSE pc' = "chat" /\ UNCHANGED <<response, raised>>
       ELSE /\ UNCHANGED <<chat_entered, attempts, idx, last_err>>
            /\ last_failure' = msg
            /\ Raise(msg)

AfterTextgenReturnUnchecked(r) ==
    /\ Succeed(extract_text_from_response(r))
    /\ UNCHANGED <<textgen_failed, err_msg, chat_entered, attempts, idx>>

\* text_generation returned resp (lines 303-306)
AfterTextgenReturn(r) ==
    IF extract_text_from_response(r) = << >>
    THEN \* "text_generation returned empty response: {resp}"
         AfterTextgenError(r.markers)
    ELSE /\ Succeed(extract_text_from_response(r))
         /\ UNCHANGED <<textgen_failed, err_msg, chat_entered, attempts, idx>>

\* chat_endpoint from the arrival of the request (line 360) to the first
\* call into the client library (line 295): the response, or proceed = TRUE
\* when the client is about to be constructed
Outcome(r, txt, chosen, called, proceed) ==
    [response |-> r, text |-> txt, chosen_model |-> chosen,
     called |-> called, raised |-> NotRaised, proceed |-> proceed]

\* call_model_with_inference_client raised before constructing the client
RaisedOutcome(msg, txt, chosen) ==
    [response |-> UpstreamFailed(msg), text |-> txt, chosen_model |-> chosen,
     called |-> TRUE, raised |-> Raised(msg), proceed |-> FALSE]

DevModeWithoutOverride(req) == FALLBACK_REPLY /\ req.model = "None"

\* if FALLBACK_REPLY: (line 380)
dev_mode(req) == FALLBACK_REPLY

TokenNeverMissing == FALSE

\* if not HF_TOKEN: (line 284)
token_missing == ~ HF_TOKEN

ChooseDefaultFirst(req) == DEFAULT_MODEL

\* chosen_model = model_override or DEFAULT_MODEL (line 385); "None" is an
\* absent, null or empty override
choose_model(req) == IF req.model # "None" THEN req.model ELSE DEFAULT_MODEL

chat_endpoint(req) ==
    LET cc == req.countryCode
        txt == Strip(IF req.message.t = "str" THEN req.message.s ELSE << >>)
        chosen == choose_model(req)
    IN  IF ~ req.is_json
        THEN Outcome(Error(400, "Content-Type must be application/json"),
                     << >>, "", FALSE, FALSE)
        ELSE IF req.body \in {"unparseable", "falsy"}
        THEN Outcome(Error(400, "invalid json body"), << >>, "", FALSE, FALSE)
        ELSE IF req.body = "nondict"
        THEN \* body.get raises AttributeError
             Outcome(handle_exception, << >>, "", FALSE, FALSE)
        ELSE IF req.message.t = "nonstr"
        THEN \* (message or "").strip() raises AttributeError
             Outcome(handle_exception, << >>, "", FALSE, FALSE)
        ELSE IF txt = << >>
        THEN Outcome(Error(400, "message required"), txt, "", FALSE, FALSE)
        ELSE IF detect_crisis(txt)
        THEN IF HelplineRaises(cc)
             THEN Outcome(handle_exception, txt, "", FALSE, FALSE)
             ELSE Outcome(Reply(PreCheckReply(Helpline(cc)), TRUE),
                          txt, "", FALSE, FALSE)
        ELSE IF dev_mode(req)
        THEN Outcome(Reply(CannedReply, FALSE), txt, "", FALSE, FALSE)
        ELSE IF chosen = ""
        THEN Outcome(Error(500, "no model configured"), txt, chosen, FALSE, FALSE)
        ELSE IF token_missing
        THEN \* "HF_TOKEN (or HF_API_TOKEN) not set in environment."
             RaisedOutcome({}, txt, chosen)
        ELSE IF ~ HF_INFERENCECLIENT_AVAILABLE
        THEN \* "InferenceClient not available: ..."
             RaisedOutcome({}, txt, chosen)
        ELSE Outcome(NoResponse, txt, chosen, TRUE, TRUE)

\* the locals of a thread that handles no request
IdleLocals ==
    [pc |-> "idle", request |-> NoRequest, text |-> << >>,
     country_code |-> "None", chosen_model |-> "", client |-> NoClient,
     attempts |-> << >>, idx |-> 0, textgen_failed |-> FALSE,
     textgen_exc |-> "", err_msg |-> {}, last_err |-> {}, last_failure |-> {},
     chat_entered |-> FALSE, model_called |-> FALSE, calls |-> << >>,
     generated |-> << >>, raised |-> NotRaised, response |-> NoResponse]

\* the locals of the running thread: every name chat_endpoint and the
\* functions it calls assign is local to the call (no global statement, no
\* write to a module-level object in lines 75-423)
Locals ==
    [pc |-> pc, request |-> request, text |-> text,
     country_code |-> country_code, chosen_model |-> chosen_model,
     client |-> client, attempts |-> attempts, idx |-> idx,
     textgen_failed |-> textgen_failed, textgen_exc |-> textgen_exc,
     err_msg |-> err_msg, last_err |-> last_err, last_failure |-> last_failure,
     chat_entered |-> chat_entered, model_called |-> model_called,
     calls |-> calls, generated |-> generated, raised |-> raised,
     response |-> response]

\* ------------------------------------------------------------------ actions
Init ==
    /\ FALLBACK_REPLY \in BOOLEAN
    /\ HF_TOKEN \in BOOLEAN
    /\ HF_INFERENCECLIENT_AVAILABLE \in BOOLEAN
    /\ DEFAULT_MODEL \in DefaultModels
    /\ pc = "idle"
    /\ request = NoRequest
    /\ text = << >>
    /\ country_code = "None"
    /\ chosen_model = ""
    /\ client = NoClient
    /\ attempts = << >>
    /\ idx = 0
    /\ textgen_failed = FALSE
    /\ textgen_exc = ""
    /\ err_msg = {}
    /\ last_err = {}
    /\ last_failure = {}
    /\ chat_entered = FALSE
    /\ model_called = FALSE
    /\ calls = << >>
    /\ generated = << >>
    /\ raised = NotRaised
    /\ response = NoResponse
    /\ resp = PlainText(<< >>)
    /\ other = IdleLocals
    /\ running = 1

\* POST /api/chat arrives
ChatEndpoint ==
    /\ pc = "idle"
    /\ \E req \in Requests :
         LET o == chat_endpoint(req)
         IN  /\ request' = req
             /\ text' = o.text
             /\ country_code' = req.countryCode
             /\ chosen_model' = o.chosen_model
             /\ model_called' = o.called
             /\ raised' = o.raised
             /\ response' = o.response
             /\ pc' = IF o.proceed THEN "construct" ELSE "done"
    /\ client' = NoClient
    /\ attempts' = << >>
    /\ idx' = 0
    /\ textgen_failed' = FALSE
    /\ textgen_exc' = ""
    /\ err_msg' = {}
    /\ last_err' = {}
    /\ last_failure' = {}
    /\ chat_entered' = FALSE
    /\ calls' = << >>
    /\ generated' = << >>
    /\ UNCHANGED <<config, resp, other, running>>

\* client = InferenceClient(**client_kwargs) (lines 294-297)
ConstructClient ==
    /\ pc = "construct"
    /\ \/ \E shape \in ClientShapes :
            /\ client' = shape
            /\ pc' = "text_generation"
            /\ UNCHANGED <<response, raised>>
       \/ \E e \in ProviderErrors :
            \* "Failed to construct InferenceClient: {e}"
            /\ Raise(e.msg)
            /\ UNCHANGED client
    /\ UNCHANGED <<config, resp, other, running, request, text, country_code, chosen_model,
                   attempts, idx, textgen_failed, textgen_exc, err_msg, last_err,
                   last_failure, chat_entered, model_called, calls, generated>>

\* client.text_generation(model=..., inputs=prompt, ...) (line 142)
TextGenerationInputs ==
    /\ pc = "text_generation"
    /\ \/ \E r \in ProviderResponses :
            /\ calls' = Append(calls, [a |-> TextGenCall("inputs"), ok |-> TRUE])
            /\ UNCHANGED textgen_exc
            /\ AfterTextgenReturn(r)
       \/ \E e \in ProviderErrors :
            /\ calls' = Append(calls, [a |-> TextGenCall("inputs"), ok |-> FALSE])
            /\ textgen_exc' = e.type
            /\ IF RetriesWithPrompt(e)
               THEN /\ pc' = "text_generation_prompt"
                    /\ last_failure' = e.msg
                    /\ UNCHANGED <<response, raised, textgen_failed, err_msg,
                                   generated, chat_entered, attempts, idx,
                                   last_err>>
               ELSE \* RuntimeError(f"Text-generation failed: {e}")
                    AfterTextgenError(e.msg)
    /\ UNCHANGED <<config, resp, other, running, request, text, country_code, chosen_model,
                   client, model_called>>

\* client.text_generation(model=..., prompt=prompt, ...) (line 144)
TextGenerationPrompt ==
    /\ pc = "text_generation_prompt"
    /\ \/ \E r \in ProviderResponses :
            /\ calls' = Append(calls, [a |-> TextGenCall("prompt"), ok |-> TRUE])
            /\ AfterTextgenReturn(r)
       \/ \E e \in ProviderErrors :
            /\ calls' = Append(calls, [a |-> TextGenCall("prompt"), ok |-> FALSE])
            /\ AfterTextgenError(e.msg)
    /\ UNCHANGED <<config, resp, other, running, request, text, country_code, chosen_model,
                   client, model_called, textgen_exc>>

\* one invocation of a chat method (lines 178, 183, 188, 225), with the
\* code that follows it up to the next invocation or to the response
ChatInvoke ==
    /\ pc = "chat"
    /\ \/ \E r \in ProviderResponses :
            /\ calls' = Append(calls, [a |-> attempts[idx], ok |-> TRUE])
            /\ IF extract_text_from_response(r) = << >>
               THEN /\ generated' = << >>
                    /\ last_err' = {}
                    /\ last_failure' = {}
                    /\ Raise(ChatEmptyMsg(r, err_msg))
               ELSE Succeed(extract_text_from_response(r))
            /\ UNCHANGED idx
       \/ \E e \in ChatErrors :
            LET nxt == NextCall(attempts, idx + 1)
                last == LastErrAfter(attempts, idx, nxt, e.msg, last_err)
            IN  /\ calls' = Append(calls, [a |-> attempts[idx], ok |-> FALSE])
                /\ idx' = nxt
                /\ last_err' = last
                /\ last_failure' = ErrorOf(attempts, idx, e.msg, nxt - 1)
                /\ generated' = << >>
                /\ IF nxt > Len(attempts)
                   THEN Raise(ChatFailedMsg(last, err_msg))
                   ELSE UNCHANGED <<pc, response, raised>>
    /\ UNCHANGED <<config, resp, other, running, request, text, country_code, chosen_model, client,
                   attempts, textgen_failed, textgen_exc, err_msg, chat_entered,
                   model_called>>

\* the response is sent; nothing of the request outlives it
NextRequest ==
    /\ pc = "done"
    /\ pc' = "idle"
    /\ request' = NoRequest
    /\ text' = << >>
    /\ country_code' = "None"
    /\ chosen_model' = ""
    /\ client' = NoClient
    /\ attempts' = << >>
    /\ idx' = 0
    /\ textgen_failed' = FALSE
    /\ textgen_exc' = ""
    /\ err_msg' = {}
    /\ last_err' = {}
    /\ last_failure' = {}
    /\ chat_entered' = FALSE
    /\ model_called' = FALSE
    /\ calls' = << >>
    /\ generated' = << >>
    /\ raised' = NotRaised
    /\ response' = NoResponse
    /\ UNCHANGED <<config, resp, other, running>>

Next ==
    \/ ChatEndpoint
    \/ NextRequest
    \/ ConstructClient
    \/ TextGenerationInputs
    \/ TextGenerationPrompt
    \/ ChatInvoke

Spec == Init /\ [][Next]_vars

\* every call into the client library eventually returns or raises: the
\* constructor (line 294), text_generation (lines 142, 144) and the chat
\* methods (lines 178-227)
FairInit == Init /\ DEFAULT_MODEL = BuiltinModel

FairSpec ==
    /\ FairInit /\ [][Next]_vars
    /\ WF_vars(ConstructClient)
    /\ WF_vars(TextGenerationInputs)
    /\ WF_vars(TextGenerationPrompt)
    /\ WF_vars(ChatInvoke)

\* ------------------------------------------------ two requests interleaved
Threads == {1, 2}

SwitchKeepingCountryCode ==
    /\ running' = CHOOSE t \in Threads : t # running
    /\ other' = Locals
    /\ pc' = other.pc
    /\ request' = other.request
    /\ text' = other.text
    /\ chosen_model' = other.chosen_model
    /\ client' = other.client
    /\ attempts' = other.attempts
    /\ idx' = other.idx
    /\ textgen_failed' = other.textgen_failed
    /\ textgen_exc' = other.textgen_exc
    /\ err_msg' = other.err_msg
    /\ last_err' = other.last_err
    /\ last_failure' = other.last_failure
    /\ chat_entered' = other.chat_entered
    /\ model_called' = other.model_called
    /\ calls' = other.calls
    /\ generated' = other.generated
    /\ raised' = other.raised
    /\ response' = other.response
    /\ UNCHANGED <<config, resp, country_code>>

\* the server (app.run, line 429, threaded) suspends the running handler
\* and resumes the other one: each thread finds its own locals again, the
\* module-level configuration is the same for both
Switch ==
    /\ running' = CHOOSE t \in Threads : t # running
    /\ other' = Locals
    /\ pc' = other.pc
    /\ request' = other.request
    /\ text' = other.text
    /\ country_code' = other.country_code
    /\ chosen_model' = other.chosen_model
    /\ client' = other.client
    /\ attempts' = other.attempts
    /\ idx' = other.idx
    /\ textgen_failed' = other.textgen_failed
    /\ textgen_exc' = other.textgen_exc
    /\ err_msg' = other.err_msg
    /\ last_err' = other.last_err
    /\ last_failure' = other.last_failure
    /\ chat_entered' = other.chat_entered
    /\ model_called' = other.model_called
    /\ calls' = other.calls
    /\ generated' = other.generated
    /\ raised' = other.raised
    /\ response' = other.response
    /\ UNCHANGED <<config, resp>>

\* the requests, clients and provider outcomes of the interleaved runs
PairRequests ==
    { Request(TRUE, "dict", Str(<< "w" >>), "in", "None"),
      Request(TRUE, "dict", Str(<< "CR" >>), "None", "None"),
      Request(TRUE, "dict", Str(<< "w" >>), "NUM91", "org/override") }

PairClients ==
    { NoClient,
      [NoClient EXCEPT !["Chat"] = Function({"args"}),
                       !["conversational"] = Builtin] }

PairMarkers ==
    { "conversational", "unexpected keyword argument",
      "object is not callable", "no signature found" }

PairTexts == { << >>, << "w" >>, << "CR" >> }

PairBound ==
    /\ request \in PairRequests \cup {NoRequest}
    /\ client \in PairClients
    /\ err_msg \subseteq PairMarkers
    /\ last_failure \subseteq PairMarkers
    /\ raised.msg \subseteq PairMarkers \cup {"Conversational"}
    /\ generated \in PairTexts

PairNext ==
    \/ ChatEndpoint /\ PairBound'
    \/ NextRequest /\ PairBound'
    \/ ConstructClient /\ PairBound'
    \/ TextGenerationInputs /\ PairBound'
    \/ TextGenerationPrompt /\ PairBound'
    \/ ChatInvoke /\ PairBound'
    \/ Switch

PairInit == Init /\ DEFAULT_MODEL = BuiltinModel

PairSpec == PairInit /\ [][PairNext]_vars

\* ------------------------------------------- extract_text_from_response alone
X_raw == << "sp", "CR", "sp", "CR" >>
X_repr == << "w", "sp", "w" >>
X_content == << "sp", "w" >>
X_first_text == << "w", "w" >>
X_generated_text == << "CR" >>
X_text == << "w", "CR", "sp" >>
X_flat_content == << "CR", "w", "sp" >>

FieldValues(t) == {Absent, NonStr, Str(t)}

\* the dicts, whether returned as such or as a JSON string
DictValues(isstr) ==
    { Value(isstr, isstr, X_raw, TRUE, "first_dict", mc, ft, gt, tx, ct, X_repr) :
        mc \in FieldValues(X_content), ft \in FieldValues(X_first_text),
        gt \in FieldValues(X_generated_text), tx \in FieldValues(X_text),
        ct \in FieldValues(X_flat_content) }
    \cup
    { Value(isstr, isstr, X_raw, TRUE, ch, Absent, Absent, gt, tx, ct, X_repr) :
        ch \in {"absent", "notlist", "empty", "first_notdict"},
        gt \in FieldValues(X_generated_text), tx \in FieldValues(X_text),
        ct \in FieldValues(X_flat_content) }

ResponseUniverse ==
    DictValues(TRUE) \cup DictValues(FALSE)
    \cup { PlainText(X_raw), PlainText(T_blank), Object(X_repr), Object(T_blank),
           Value(TRUE, TRUE, X_raw, FALSE, "absent", Absent, Absent, Absent,
                 Absent, Absent, X_repr) }

ExtractInit ==
    /\ FALLBACK_REPLY = FALSE
    /\ HF_TOKEN = TRUE
    /\ HF_INFERENCECLIENT_AVAILABLE = TRUE
    /\ DEFAULT_MODEL = "meta-llama/Llama-3.1-8B-Instruct"
    /\ pc = "extract"
    /\ request = NoRequest
    /\ text = << >>
    /\ country_code = "None"
    /\ chosen_model = ""
    /\ client = NoClient
    /\ attempts = << >>
    /\ idx = 0
    /\ textgen_failed = FALSE
    /\ textgen_exc = ""
    /\ err_msg = {}
    /\ last_err = {}
    /\ last_failure = {}
    /\ chat_entered = FALSE
    /\ model_called = FALSE
    /\ calls = << >>
    /\ generated = << >>
    /\ raised = NotRaised
    /\ response = NoResponse
    /\ resp \in ResponseUniverse
    /\ other = IdleLocals
    /\ running = 1

\* text = extract_text_from_response(resp)
Extract ==
    /\ pc = "extract"
    /\ pc' = "extracted"
    /\ generated' = extract_text_from_response(resp)
    /\ UNCHANGED <<config, request, text, country_code, chosen_model, client,
                   attempts, idx, textgen_failed, textgen_exc, err_msg, last_err,
                   last_failure, chat_entered, model_called, calls, raised,
                   response, resp, other, running>>

ExtractNext == Extract

ExtractSpec == ExtractInit /\ [][ExtractNext]_vars

\* ------------------------------------------------------------------ claims
Range(q) == {q[i] : i \in 1..Len(q)}

Helplines == {DEFAULT_HELPLINE[c] : c \in DOMAIN DEFAULT_HELPLINE}

\* the request carries a message that is a string
HasTextMessage ==
    request.is_json /\ request.body = "dict" /\ request.message.t = "str"

\* the message of the request matches a crisis pattern
CrisisMessage == HasTextMessage /\ detect_crisis(request.message.s)

\* the message of the request is missing, empty or whitespace only
BlankMessage ==
    \/ request.message.t = "absent"
    \/ request.message.t = "str" /\ Strip(request.message.s) = << >>

\* the message of the request is a non-blank text that matches no pattern
PlainMessage ==
    /\ HasTextMessage
    /\ Strip(request.message.s) # << >>
    /\ ~ detect_crisis(request.message.s)

Answered == pc = "done"

\* C1: every request whose message contains a crisis phrase is answered
\* 200 with crisis = true, whatever countryCode, model and configuration,
\* and the model caller is never invoked during it.
C1_CrisisMessageGetsSafetyReply ==
    CrisisMessage =>
        /\ ~ model_called
        /\ Answered => response.status = 200 /\ response.crisis

\* C2: in every response with crisis = true the text is a fixed safety
\* template filled only with a helpline value, never text of the model,
\* on the pre-check path and on the post-check path.
C2_CrisisTextIsTemplate ==
    (Answered /\ response.crisis) =>
        /\ response.text.template \in {"pre_check", "post_check"}
        /\ response.text.helpline \in Helplines
        /\ response.text.generated = << >>

\* the post-check replaced a generated reply by the safety reply
C2_Witness ==
    /\ Answered /\ response.crisis
    /\ generated # << >> /\ detect_crisis(generated)
    /\ response.text.template = "post_check"

\* C3: a request whose message is missing, empty or whitespace only is
\* answered 400, and neither a safety reply, nor the canned reply, nor the
\* model caller is reached.
C3_BlankMessageIs400 ==
    (Answered /\ BlankMessage) =>
        /\ response.status = 400
        /\ response.text = NoText
        /\ ~ model_called

\* C4: in canned-reply mode every request with a non-empty, non-crisis
\* message is answered 200 with the fixed dev reply and crisis = false,
\* whatever the model override, the default model and the token, and the
\* model caller is never invoked.
C4_CannedReplyInDevMode ==
    (FALLBACK_REPLY /\ PlainMessage) =>
        /\ ~ model_called
        /\ Answered => response = Reply(CannedReply, FALSE)

\* canned reply despite a model override, with no token set
C4_Witness ==
    /\ Answered /\ FALLBACK_REPLY /\ PlainMessage
    /\ request.model # "None" /\ ~ HF_TOKEN
    /\ response.text = CannedReply

\* the text-generation attempt failed with a message containing
\* "conversational" (case-insensitive)
ConversationalTextgenError ==
    textgen_failed /\ "conversational" \in Lower(err_msg)

IsChatCall(c) == c.a.phase # "text_generation"

ChatCalls == SelectSeq(calls, IsChatCall)

\* every chat-mode candidate that is a callable attribute of the client was
\* invoked, and no invocation of a chat method returned
ChatSequenceFailed ==
    /\ \A i \in 1..Len(candidates) :
          (client[candidates[i].name].present /\ client[candidates[i].name].callable)
            => \E c \in Range(calls) : c.a.phase = "named" /\ c.a.cand = i
    /\ \A c \in Range(ChatCalls) : ~ c.ok

\* a chat method returned a value whose extracted text is empty
ChatReturnedEmpty ==
    /\ ChatCalls # << >>
    /\ calls[Len(calls)].ok
    /\ IsChatCall(calls[Len(calls)])

\* C5: when the text-generation attempt fails with an error containing
\* "conversational" (case-insensitive), try_chat_methods is invoked before
\* any error is raised, and an error is raised only after the chat-mode
\* sequence has failed too: every candidate present was attempted and none
\* returned, or the value a chat method returned had no text.
C5_ConversationalErrorTriesChat ==
    ConversationalTextgenError =>
        /\ chat_entered
        /\ raised.is => (ChatSequenceFailed \/ ChatReturnedEmpty)

\* the error surfaced after chat methods were invoked and all failed
C5_Witness ==
    /\ ConversationalTextgenError /\ raised.is
    /\ ChatCalls # << >> /\ ChatSequenceFailed
    /\ response.status = 502

\* the parameter names of the callable an attempt invokes
ParamsOf(a) ==
    IF a.target = "self" THEN client[a.attr].params
    ELSE client[a.attr].members[a.target].params

\* the candidate payload of an attempt
PayloadOf(a) ==
    IF a.phase = "named" THEN candidates[a.cand].payload ELSE PayloadMessages

AcceptedFields(a) == {f \in PayloadOf(a) : f \in ParamsOf(a)}

\* C6: a chat method whose signature names only a subset of the payload
\* fields is called with keyword arguments that are exactly those fields,
\* before any other calling convention is tried on it, and when that call
\* succeeds its result is returned with no further invocation.
C6_CalledWithAcceptedSubset ==
    \A i \in 1..Len(calls) :
        /\ calls[i].a.style = "sig_kwargs" =>
              /\ calls[i].a.kwargs = AcceptedFields(calls[i].a)
              /\ calls[i].ok => (i = Len(calls) /\ Answered)
        /\ (calls[i].a.style = "positional" /\ AcceptedFields(calls[i].a) # {}) =>
              /\ i > 1
              /\ calls[i - 1].a = [calls[i].a EXCEPT !.style = "sig_kwargs",
                                       !.kwargs = AcceptedFields(calls[i].a)]
              /\ ~ calls[i - 1].ok

\* a chat method accepting a proper subset of the payload was called with
\* that subset, returned, and the request was answered with its text
C6_Witness ==
    /\ Answered /\ response.status = 200 /\ calls # << >>
    /\ LET c == calls[Len(calls)]
       IN  /\ c.ok /\ c.a.style = "sig_kwargs"
           /\ c.a.kwargs # PayloadOf(c.a)
           /\ c.a.kwargs = {"model", "messages", "temperature"}

\* C7: whenever the model caller raises, the response is 502 with error
\* "upstream_inference_failed", detail the raw error string and a guidance
\* list that contains the not-found entry when the error contains
\* "Not Found" or "404", the unauthorized entry when it contains "403",
\* "Unauthorized" or "permission", the conversational entry when it
\* contains "conversational" (the last two in any letter case), and that
\* is never empty.
C7_UpstreamFailureGuidance ==
    /\ (Answered /\ model_called /\ generated = << >>) => raised.is
    /\ raised.is =>
        /\ Answered
        /\ response.status = 502
        /\ response.error = "upstream_inference_failed"
        /\ response.detail = raised.msg
        /\ response.guidance # << >>
        /\ ("Not Found" \in raised.msg \/ "404" \in raised.msg)
              => G_NOT_FOUND \in Range(response.guidance)
        /\ ("403" \in raised.msg \/ "Unauthorized" \in raised.msg
              \/ "permission" \in Lower(raised.msg))
              => G_UNAUTHORIZED \in Range(response.guidance)
        /\ "conversational" \in Lower(raised.msg)
              => G_CONVERSATIONAL \in Range(response.guidance)

\* the adapter raised "404 Not Found" and the guidance names the model
C7_Witness ==
    /\ raised.is /\ raised.msg = {"404", "Not Found"}
    /\ request.model # "None"
    /\ response.status = 502
    /\ response.guidance = << G_NOT_FOUND >>

\* the kinds of failure of a request
BadInput == ~ HasTextMessage \/ Strip(request.message.s) = << >>

UnexpectedException ==
    /\ ~ BadInput
    /\ HelplineRaises(request.countryCode)
    /\ detect_crisis(request.message.s) \/ detect_crisis(generated)

Failure == BadInput \/ raised.is \/ UnexpectedException

\* C8: every request ends in exactly one response; every failure (bad
\* input, configuration error, adapter failure, unexpected exception in the
\* handler) is answered with a JSON body that has an "error" field and
\* status 400, 500 or 502, never with a 200 or a non-JSON response.
C8_FailuresAreStructuredErrors ==
    /\ Answered <=> response # NoResponse
    /\ Answered =>
        /\ response.json
        /\ Failure => (response.status \in {400, 500, 502} /\ response.error # "")
        /\ ~ Failure => (response.status = 200 /\ response.error = "")

\* an exception raised inside the handler, after the model caller returned,
\* was answered by the global handler
C8_Witness ==
    /\ Answered /\ UnexpectedException /\ ~ raised.is
    /\ generated # << >>
    /\ response.status = 500 /\ response.error = "internal_server_error"

\* C9 as stated: the safety reply of the post-check is the same template as
\* that of the pre-check; for the same countryCode both paths produce the
\* same response text.
C9_SameSafetyText ==
    (Answered /\ response.crisis) =>
        response.text = PreCheckReply(Helpline(request.countryCode))

\* C9 amended: both paths fill their template with the same helpline, the
\* one looked up from the upper-cased countryCode with the US default; the
\* pre-check answers with the pre-check template, the post-check with its
\* own, different template.
C9_SameHelplineOwnTemplate ==
    (Answered /\ response.crisis) =>
        /\ response.text.helpline = Helpline(request.countryCode)
        /\ response.text.template =
              (IF model_called THEN "post_check" ELSE "pre_check")
        /\ PreCheckReply(Helpline(request.countryCode))
              # PostCheckReply(Helpline(request.countryCode))

\* the post-check answered a request with a lower-case countryCode
C9_Witness ==
    /\ Answered /\ response.crisis /\ model_called
    /\ request.countryCode = "in"
    /\ response.text = PostCheckReply(DEFAULT_HELPLINE["IN"])

\* the response is a dict whose choices[0].message.content is a string
NestedContent(r) ==
    r.isdict /\ r.choices = "first_dict" /\ r.msg_content.t = "str"

NestedText(r) ==
    r.isdict /\ r.choices = "first_dict" /\ r.first_text.t = "str"

HasFlat(r) ==
    r.isdict /\ (r.generated_text.t = "str" \/ r.text.t = "str" \/ r.content.t = "str")

FirstFlat(r) ==
    IF r.generated_text.t = "str" THEN r.generated_text.s
    ELSE IF r.text.t = "str" THEN r.text.s
    ELSE r.content.s

\* str(resp) of the whole response
Whole(r) == IF r.isstr /\ ~ r.parses THEN r.raw ELSE r.repr

\* C10 as stated: choices[0].message.content when it is a string, otherwise
\* the first string among generated_text, text, content, otherwise the
\* stringified whole response; always stripped.
C10_ClaimedPrecedence ==
    pc = "extracted" =>
        generated =
            Strip(IF NestedContent(resp) THEN resp.msg_content.s
                  ELSE IF HasFlat(resp) THEN FirstFlat(resp)
                  ELSE Whole(resp))

\* C10 amended: between choices[0].message.content and the flat fields,
\* choices[0].text is returned when it is a string.
C10_Precedence ==
    pc = "extracted" =>
        /\ NestedContent(resp) => generated = Strip(resp.msg_content.s)
        /\ (~ NestedContent(resp) /\ NestedText(resp))
              => generated = Strip(resp.first_text.s)
        /\ (~ NestedContent(resp) /\ ~ NestedText(resp) /\ HasFlat(resp))
              => generated = Strip(FirstFlat(resp))
        /\ (~ NestedContent(resp) /\ ~ NestedText(resp) /\ ~ HasFlat(resp))
              => generated = Strip(Whole(resp))

\* choices[0].text won over a flat generated_text
C10_Witness ==
    /\ pc = "extracted"
    /\ ~ NestedContent(resp) /\ NestedText(resp)
    /\ resp.generated_text.t = "str"
    /\ generated = X_first_text

\* every attempt of the adapter that ran was an invocation that failed:
\* text generation was called, nothing returned, and an error was raised
EveryAttemptFailed ==
    /\ raised.is
    /\ calls # << >>
    /\ \A c \in Range(calls) : ~ c.ok

\* C11: when every attempt of the adapter fails (text generation, its
\* retry, every chat-mode candidate and every scanned attribute), the one
\* RuntimeError that call_model_with_inference_client raises carries the
\* message of the most recent failure, the one of the last attempt made.
C11_RaisedCarriesLastFailure ==
    EveryAttemptFailed =>
        /\ last_failure # {}
        /\ last_failure \subseteq raised.msg
        /\ chat_entered => (err_msg \subseteq raised.msg)

\* text generation failed with one error, the last chat-mode attempt with
\* another, and the raised message carries the later one
C11_Witness ==
    /\ EveryAttemptFailed
    /\ ChatCalls # << >>
    /\ ~ (last_failure \subseteq err_msg)
    /\ last_failure \subseteq raised.msg
    /\ response.status = 502

\* text generation failed with an error that contains none of
\* "conversational", "supported task", "supported tasks", in any case
OtherTextgenError ==
    /\ textgen_failed
    /\ \A m \in Lower(err_msg) :
          m \notin {"conversational", "supported task", "supported tasks"}

\* C13: when the text-generation attempt fails with an error containing
\* none of "conversational", "supported task", "supported tasks"
\* (case-insensitive), the adapter raises that error and no chat-mode
\* method is invoked during the request.
C13_OtherErrorPropagates ==
    OtherTextgenError =>
        /\ ~ chat_entered
        /\ attempts = << >>
        /\ ChatCalls = << >>
        /\ raised = Raised(err_msg)
        /\ Answered

\* text generation raised a 404 and the request ended with that error,
\* after the text-generation call only
C13_Witness ==
    /\ OtherTextgenError
    /\ "404" \in err_msg
    /\ raised.msg = err_msg
    /\ Len(calls) = 1 /\ ~ calls[1].ok
    /\ response.status = 502

IsTextGenCall(c) == c.a.phase = "text_generation"

TextGenCalls == SelectSeq(calls, IsTextGenCall)

\* C14: per request text_generation is invoked at most twice: first with
\* the primary parameter name (inputs), and a second time, with the
\* alternate name (prompt), only if the first call raised TypeError; no
\* other failure of the first call is retried, and a failure of the second
\* call is never retried.
C14_TextGenerationAtMostTwice ==
    LET tg == TextGenCalls
    IN  /\ Len(tg) <= 2
        /\ \A i \in 1..Len(tg) : calls[i] = tg[i]
        /\ Len(tg) >= 1 => tg[1].a = TextGenCall("inputs")
        /\ Len(tg) = 2 =>
              /\ tg[2].a = TextGenCall("prompt")
              /\ ~ tg[1].ok
              /\ textgen_exc = "TypeError"
        /\ (Len(tg) >= 1 /\ textgen_exc \notin {"", "TypeError"}) => Len(tg) = 1
        /\ (Len(tg) >= 1 /\ tg[1].ok) => Len(tg) = 1

\* the first call raised TypeError, the retry with prompt= failed too, and
\* the request ended without a third text_generation call
C14_Witness ==
    /\ Len(TextGenCalls) = 2
    /\ textgen_exc = "TypeError"
    /\ ~ calls[2].ok
    /\ Answered /\ raised.is

\* two attempts of one visit: of the same candidate, or of the same
\* attribute found by the scan
SameVisit(a, b) == a.phase = b.phase /\ a.cand = b.cand

\* two attempts on the same callable: the attribute itself, or one of its
\* members generate, create, __call__, run, invoke
SameCallable(a, b) == SameVisit(a, b) /\ a.target = b.target

\* the place of a calling convention in the order of the claim
Rank(style) ==
    CASE style = "sig_kwargs" -> 1
      [] style \in {"positional", "final_positional"} -> 2
      [] style = "full_payload" -> 3
      [] OTHER -> 0

\* a chat method that returned ends the request
StopsAtFirstSuccess ==
    \A i \in 1..Len(calls) :
        (IsChatCall(calls[i]) /\ calls[i].ok) => (i = Len(calls) /\ Answered)

\* C15 as stated: for each chat-mode candidate the invocations are, in this
\* order, accepted fields as keyword arguments, then positional arguments,
\* then the full payload as keyword arguments, each only if the one before
\* failed, and after a call returned no further method is invoked.
C15_ClaimedOrderPerCandidate ==
    /\ StopsAtFirstSuccess
    /\ \A i, j \in 1..Len(calls) :
          (i < j /\ IsChatCall(calls[i]) /\ SameVisit(calls[i].a, calls[j].a)) =>
              Rank(calls[i].a.style) < Rank(calls[j].a.style)

\* C15 (amended): the order holds for each callable tried for a candidate,
\* the attribute itself and then each callable member of it; one more
\* positional call of the attribute closes the visit; after a call returned
\* no further method is invoked.
C15_OrderPerCallable ==
    /\ StopsAtFirstSuccess
    /\ \A i, j \in 1..Len(calls) :
          ( /\ i < j /\ IsChatCall(calls[i])
            /\ SameCallable(calls[i].a, calls[j].a)
            /\ calls[j].a.style # "final_positional" ) =>
              /\ Rank(calls[i].a.style) < Rank(calls[j].a.style)
              /\ ~ calls[i].ok
    /\ \A j \in 1..Len(calls) :
          /\ calls[j].a.style = "full_payload" =>
                /\ j > 1
                /\ SameCallable(calls[j - 1].a, calls[j].a)
                /\ calls[j - 1].a.style = "positional"
                /\ calls[j].a.kwargs = PayloadOf(calls[j].a)
          /\ (calls[j].a.style = "positional" /\ j > 1
                /\ SameCallable(calls[j - 1].a, calls[j].a)) =>
                calls[j - 1].a.style = "sig_kwargs"
          /\ calls[j].a.style = "sig_kwargs" =>
                \A i \in 1..(j - 1) : ~ SameCallable(calls[i].a, calls[j].a)
          /\ calls[j].a.style = "final_positional" =>
                /\ calls[j].a.target = "self"
                /\ \A k \in (j + 1)..Len(calls) :
                      ~ SameVisit(calls[j].a, calls[k].a)

\* the three conventions failed on a callable attribute, its __call__ was
\* tried next, and the closing positional call returned and ended the
\* request
C15_Witness ==
    \E j \in 1..Len(calls) :
        /\ calls[j].a.style = "final_positional" /\ calls[j].ok
        /\ j = Len(calls) /\ Answered /\ response.status = 200
        /\ \E i, k \in 1..(j - 1) :
              /\ i < k
              /\ SameVisit(calls[i].a, calls[j].a)
              /\ SameVisit(calls[k].a, calls[j].a)
              /\ calls[i].a.target = "self" /\ calls[i].a.style = "full_payload"
              /\ calls[k].a.target # "self" /\ calls[k].a.style = "positional"

IsScanCall(c) == c.a.phase = "scan"

IsNamedCall(c) == c.a.phase = "named"

\* the invocations of one visit, in order
VisitCalls(phase, cand) ==
    SelectSeq(calls, LAMBDA c : c.a.phase = phase /\ c.a.cand = cand)

\* what an invocation does to the attribute it is made on
Convention(c) == [target |-> c.a.target, style |-> c.a.style, kwargs |-> c.a.kwargs]

\* the visit of the scan to an attribute repeats, as far as it got, the
\* invocations of the named candidate with that name and the same payload
SameAttemptsAsNamed(s, c) ==
    LET sv == VisitCalls("scan", s)
        nv == VisitCalls("named", c)
    IN  /\ Len(sv) <= Len(nv)
        /\ \A k \in 1..Len(sv) : Convention(sv[k]) = Convention(nv[k])

\* C16: in try_chat_methods the scan of the client's attributes named, in
\* any case, chat, conversational or chat_completion starts only after
\* every named candidate has been tried and failed or was absent; it never
\* starts once a named candidate returned; every attribute it finds goes
\* through the same invocation attempts.
C16_ScanAfterNamedCandidates ==
    /\ \A j \in 1..Len(calls) :
          IsScanCall(calls[j]) =>
              /\ \A i \in 1..(j - 1) : IsChatCall(calls[i]) => ~ calls[i].ok
              /\ \A k \in (j + 1)..Len(calls) : IsScanCall(calls[k])
              /\ \A c \in 1..Len(candidates) :
                    ( /\ client[candidates[c].name].present
                      /\ client[candidates[c].name].callable ) =>
                        \E i \in 1..(j - 1) :
                            /\ IsNamedCall(calls[i]) /\ calls[i].a.cand = c
                            /\ calls[i].a.style = "final_positional"
              /\ client[calls[j].a.attr].present
              /\ LowerName(calls[j].a.attr) \in ChatNames
              /\ calls[j].a.attr = AttrNames[calls[j].a.cand]
    /\ \A s \in 1..Len(AttrNames) : \A c \in 1..Len(candidates) :
          ( /\ candidates[c].name = AttrNames[s]
            /\ candidates[c].payload = PayloadMessages ) =>
              SameAttemptsAsNamed(s, c)
    /\ (raised.is /\ chat_entered /\ \A c \in Range(ChatCalls) : ~ c.ok) =>
          \A s \in 1..Len(AttrNames) :
              ( /\ client[AttrNames[s]].present /\ client[AttrNames[s]].callable
                /\ LowerName(AttrNames[s]) \in ChatNames ) =>
                  \E c \in Range(calls) : IsScanCall(c) /\ c.a.cand = s

\* every named candidate failed, the scan reached an attribute that had
\* been tried by name, repeated the attempts on it, and one returned
C16_Witness ==
    /\ Answered /\ response.status = 200
    /\ calls # << >>
    /\ IsScanCall(calls[Len(calls)]) /\ calls[Len(calls)].ok
    /\ calls[Len(calls)].a.attr \in ChatNames
    /\ Len(VisitCalls("scan", calls[Len(calls)].a.cand)) > 1
    /\ \E i \in 1..Len(calls) :
          /\ IsNamedCall(calls[i]) /\ ~ calls[i].ok
          /\ calls[i].a.attr = calls[Len(calls)].a.attr
          /\ Convention(calls[i]) = Convention(calls[Len(calls)])

\* call_model_with_inference_client returned a reply
ModelCallerSucceeded ==
    Answered /\ model_called /\ ~ raised.is /\ generated # << >>

\* C17: when the model caller succeeds and its reply matches a crisis
\* pattern, the response is 200 with crisis = true and the safety reply in
\* place of the model text; when it succeeds and nothing matches, the
\* response is 200 with crisis = false and the text is the generated reply,
\* stripped.
C17_PostCheckDecidesReply ==
    ModelCallerSucceeded =>
        /\ response.status = 200
        /\ IF detect_crisis(generated)
           THEN /\ response.crisis
                /\ response.text.template = "post_check"
                /\ response.text.generated = << >>
           ELSE /\ ~ response.crisis
                /\ response.text = ModelReply(Strip(generated))

\* the request reached the choice of the model (line 385): a plain message
\* outside the developer mode
ReachedModelChoice == PlainMessage /\ ~ FALLBACK_REPLY

HasOverride == request.model # "None"

\* neither DEFAULT_MODEL nor PUBLIC_FALLBACK_MODEL configures a default
NoConfiguredDefault == DEFAULT_MODEL = BuiltinModel

\* the model id call_model_with_inference_client receives is the override
\* when there is one, the default otherwise
PassedModelId ==
    model_called =>
        chosen_model = (IF HasOverride THEN request.model ELSE DEFAULT_MODEL)

C18_OverrideWitness ==
    /\ ReachedModelChoice /\ HasOverride /\ model_called
    /\ chosen_model = request.model /\ chosen_model # DEFAULT_MODEL

\* the request is inside the client library: the client is being
\* constructed, or one of its methods is about to be invoked
InsideClientLibrary ==
    pc \in {"construct", "text_generation", "text_generation_prompt", "chat"}

\* C19: when the API token is absent or the client library is unavailable,
\* call_model_with_inference_client fails before it constructs the client
\* and before it invokes any method, and the request ends with the error
\* response 502, not with a reply.
C19_NoTokenNoClient ==
    (~ HF_TOKEN \/ ~ HF_INFERENCECLIENT_AVAILABLE) =>
        /\ ~ InsideClientLibrary
        /\ client = NoClient /\ calls = << >> /\ generated = << >>
        /\ model_called =>
              /\ Answered /\ raised.is
              /\ response.status = 502
              /\ response.error = "upstream_inference_failed"
              /\ response.role = "" /\ response.text = NoText

\* a plain message under a configuration without token ended with 502
C19_Witness ==
    /\ ~ HF_TOKEN /\ HF_INFERENCECLIENT_AVAILABLE
    /\ PlainMessage /\ model_called
    /\ Answered /\ response.status = 502

\* the same with the token set and the client library missing
C19_UnavailableWitness ==
    /\ HF_TOKEN /\ ~ HF_INFERENCECLIENT_AVAILABLE
    /\ PlainMessage /\ model_called
    /\ Answered /\ response.status = 502

\* a client method returned a value and the adapter did not return its
\* text: the text extracted from it was empty
ReturnedEmptyText(k) == calls[k].ok /\ generated = << >>

\* C20: call_model_with_inference_client never returns an empty or
\* whitespace-only text: a text-generation or chat call whose extracted
\* text is empty counts as a failure (an error is raised, which for text
\* generation goes through the conversational-error test), so every 200
\* response with crisis = false that comes from the model has a non-empty
\* text.
C20_NeverReturnsEmptyText ==
    /\ generated # << >> => Strip(generated) = generated
    /\ (Answered /\ model_called /\ ~ raised.is) => generated # << >>
    /\ (Answered /\ model_called /\ response.status = 200 /\ ~ response.crisis) =>
          /\ response.text.generated # << >>
          /\ Strip(response.text.generated) # << >>
    /\ \A k \in 1..Len(calls) :
          ReturnedEmptyText(k) =>
              IF IsChatCall(calls[k])
              THEN k = Len(calls) /\ raised.is /\ response.status = 502
              ELSE /\ textgen_failed
                   /\ chat_entered <=> IsConversationalError(err_msg)
                   /\ ~ chat_entered => (raised = Raised(err_msg) /\ response.status = 502)

\* text generation returned a value with no text, whose repr names the
\* conversational task; the chat methods were tried and the request was
\* answered with the text one of them returned
C20_Witness ==
    /\ calls # << >> /\ calls[1].ok /\ IsTextGenCall(calls[1])
    /\ textgen_failed /\ chat_entered
    /\ Answered /\ response.status = 200 /\ ~ response.crisis
    /\ response.text.generated # << >>

\* the same value returned by a chat method ended the request with 502
C20_ChatEmptyWitness ==
    /\ calls # << >>
    /\ IsChatCall(calls[Len(calls)]) /\ ReturnedEmptyText(Len(calls))
    /\ raised.is /\ response.status = 502

\* the response a request gets when it is handled alone, from the request,
\* the configuration and what the provider did for it
AloneResponse(l) ==
    IF l.raised.is THEN UpstreamFailed(l.raised.msg)
    ELSE IF l.generated # << >>
    THEN post_check(l.generated, l.request.countryCode)
    ELSE chat_endpoint(l.request).response

RespondsAsAlone(l) == l.pc = "done" => l.response = AloneResponse(l)

\* C12: no mutable state is shared between requests: a step of one request
\* writes neither the configuration nor anything the other request reads,
\* a suspended request finds its locals as it left them, and so under every
\* interleaving of two /api/chat requests each response is the one the
\* request gets alone, for the same configuration and provider outcomes.
C12_RequestsDoNotInterfere ==
    /\ [][config' = config]_vars
    /\ [][running' = running => other' = other]_vars
    /\ [][running' # running => (Locals' = other /\ other' = Locals)]_vars
    /\ [](RespondsAsAlone(Locals) /\ RespondsAsAlone(other))

\* one request was suspended inside the chat fallback while the other, with
\* another countryCode and model, ran from its arrival to a reply of the
\* model; then the first was resumed, still inside the fallback
C12_Witness ==
    /\ running = 1
    /\ pc = "chat" /\ calls # << >>
    /\ other.pc = "done" /\ other.model_called /\ other.calls # << >>
    /\ other.response.status = 200
    /\ other.request.countryCode # request.countryCode
    /\ other.chosen_model # chosen_model

\* both requests answered, differently
C12_BothAnswered ==
    /\ pc = "done" /\ other.pc = "done"
    /\ model_called /\ other.model_called
    /\ response.status = 200 /\ response.crisis
    /\ other.response.status = 500
    /\ Len(calls) = 2 /\ Len(other.calls) > 2

\* the stage of the fallback chain an invocation belongs to
StageOf(c) ==
    CASE c.a.phase = "text_generation" -> 1
      [] c.a.phase = "named" -> 2
      [] c.a.phase = "scan" -> 3

\* the invocations of a request go through the stages in order, and inside
\* a stage through the candidates, or the scanned attributes, in order:
\* the invocations of one visit are consecutive and no visit is resumed
ForwardOnly ==
    \A i, j \in 1..Len(calls) :
        i < j =>
            /\ StageOf(calls[i]) <= StageOf(calls[j])
            /\ StageOf(calls[i]) = StageOf(calls[j]) =>
                  calls[i].a.cand <= calls[j].a.cand
            /\ (IsTextGenCall(calls[i]) /\ IsTextGenCall(calls[j])) =>
                  (calls[i].a.style = "inputs" /\ calls[j].a.style = "prompt")

\* how far the request in progress has come
Progress ==
    CASE pc = "idle" -> 0
      [] pc = "construct" -> 1
      [] pc = "text_generation" -> 2
      [] pc = "text_generation_prompt" -> 3
      [] pc = "chat" -> 3 + idx
      [] pc = "done" -> 5 + Len(attempts)

\* C21: provided every call into the client returns or raises, every
\* /api/chat request reaches a terminal response: the fallback chain only
\* moves forward (text generation, then the named chat candidates, then the
\* attribute scan), visits each candidate and each scanned attribute at
\* most once, never goes back to an earlier stage, and every step of a
\* request brings it closer to its response.
C21_RequestTerminates ==
    /\ [](ForwardOnly /\ (pc = "chat" => idx \in 1..Len(attempts)))
    /\ [][pc # "done" => Progress' > Progress]_vars
    /\ [][pc = "chat" => attempts' = attempts]_vars
    /\ (InsideClientLibrary ~> Answered)

\* a request went through the three stages, every call failing, and ended
\* with its response after the last scanned attribute
C21_Witness ==
    /\ Answered /\ raised.is /\ response.status = 502
    /\ \E c \in Range(calls) : StageOf(c) = 1
    /\ \E c \in Range(calls) : StageOf(c) = 2
    /\ \E c \in Range(calls) : StageOf(c) = 3
    /\ idx = Len(attempts) + 1
    /\ \A c \in Range(calls) : ~ c.ok

====
